---------------------------- MODULE Spec2Model ----------------------------
(***************************************************************************)
(* A model of the CRAFT data-preparation utilities                         *)
(* (src/convokit/CRAFT/craftUtil.py): the vocabulary Voc, the dialog       *)
(* processor and pair extractor, the batch flattener, the tensorizer and   *)
(* the batch iterator; and of the FightingWords comparator                 *)
(* (src/convokit/fighting_words/fightingWords.py): its fit and its         *)
(* queries.                                                                *)
(*                                                                         *)
(* Python lists are sequences; a list index kept as a VALUE (batch_idx,    *)
(* dialog_idx, cur_idx, a vocabulary index) keeps its 0-based Python       *)
(* value, and At(l, i) reads l[i].  A Python string is a sequence of       *)
(* one-character strings where the code looks inside it (split, tokenize); *)
(* a word or token is a TLA+ string.                                       *)
(***************************************************************************)
EXTENDS Integers, Sequences, FiniteSets, TLC

VARIABLES
    voc,            \* the Voc object: word2index, word2count, index2word, num_words, trimmed
    lastOp,         \* the last call made on voc: [op, arg]
    exc,            \* what that call raised: "None" or "KeyError"
    added,          \* the words for which an addWord call of the caller has completed
    ntrims,         \* the number of trim calls made on voc so far
    ncalls,         \* the number of calls made on voc so far
    dialog_batch,   \* dialogBatch2UtteranceBatch's argument, as its caller builds it
    flat_ret,       \* what dialogBatch2UtteranceBatch returned
    flat_pc,        \* "idle", "build" (the caller is building the batch) or "done"
    corpus,         \* loadPairs' corpus, as the collaborator holds it
    pairs,          \* what loadPairs returned
    pairs_pc,       \* "idle", "build" (the corpus is being filled) or "done"
    pairs_voc,      \* the vocabulary loadPairs was called with, as it was then
    pad_call,       \* the tensorizer function called: "none" before the call
    pad_args,       \* the list it was called with
    pad_ret,        \* what it returned
    pad_exc,        \* what it raised: "None", "KeyError" or "ValueError"
    source_data,    \* batchIterator's list of pairs, which a shuffle changes in place
    batch_size,     \* batchIterator's batch_size
    shuffle,        \* batchIterator's shuffle
    cur_idx,        \* the generator's cursor
    it_pc,          \* "idle", "created", "yielded" (suspended at its yield) or "raised"
    it_exc,         \* what the generator raised
    yields,         \* the values the generator has yielded, each with the cursor it was cut at
    fw_corpus,      \* the corpus the comparator's callers hold, a list of utterances
    ngram_zscores,  \* FightingWords.ngram_zscores: None or the scores of the last fit
    count_matrix,   \* FightingWords._count_matrix: None or the counts of the last fit
    fw_op,          \* the last call on the comparator: its name, argument, exception, value
    fw_fitted,      \* whether a fit has completed without raising so far
    fw_failed,      \* whether a fit has raised so far
    fw_calls        \* the number of calls made on the comparator so far

vocVars == <<voc, lastOp, exc, added, ntrims, ncalls>>

flatVars == <<dialog_batch, flat_ret, flat_pc>>

pairVars == <<corpus, pairs, pairs_pc, pairs_voc>>

padVars == <<pad_call, pad_args, pad_ret, pad_exc>>

iterVars == <<source_data, batch_size, shuffle, cur_idx, it_pc, it_exc, yields>>

fwVars == <<fw_corpus, ngram_zscores, count_matrix, fw_op, fw_fitted, fw_failed, fw_calls>>

vars == <<vocVars, flatVars, pairVars, padVars, iterVars, fwVars>>

\* ------------------------------------------------------------------ helpers

\* l[i] of a Python list, i its 0-based index
At(l, i) == l[i + 1]

\* l[:n] of a Python list
Take(l, n) == SubSeq(l, 1, IF n < Len(l) THEN n ELSE Len(l))

Range(s) == {s[i] : i \in DOMAIN s}

\* ---------------------------------------------------------------- constants

MAX_LENGTH == 80
PAD_token == 0
SOS_token == 1
EOS_token == 2
UNK_token == 3

\* ------------------------------------------------------------------ bounds

\* calls made on one vocabulary
MaxCalls == 4

\* dialogs of a batch, utterances of a batch, tokens of an utterance
MaxDialogs == 2
MaxBatchUtts == 4
MaxUttLen == 3

\* conversations of a corpus, utterances of a corpus
MaxConvos == 2
MaxCorpusUtts == 3

\* sequences of a list to pad, elements of a sequence
MaxSeqs == 2
MaxSeqLen == 3

\* pairs of a dataset, batch_size, values taken from one generator
MaxPairs == 5
MaxBatchSize == 3
MaxPolls == 8

\* pairs of a shuffled dataset, values taken from its generator
MaxShufflePairs == 3
MaxShufflePolls == 5

\* calls made on one comparator, utterances of its corpus
MaxFwCalls == 3
MaxFwUtts == 2

\* ------------------------------------------------------------------- Voc

\* word2count is a dict that trim iterates: a sequence of [word, count] in insertion order
HasCount(word2count, word) == \E i \in DOMAIN word2count : word2count[i].word = word

CountOf(word2count, word) ==
    LET i == CHOOSE i \in DOMAIN word2count : word2count[i].word = word
    IN word2count[i].count

\* d[k] = x on a dict that is only looked up
SetItem(d, k, x) == [y \in DOMAIN d \cup {k} |-> IF y = k THEN x ELSE d[y]]

ReservedIndex2Word ==
    [i \in {PAD_token, SOS_token, EOS_token, UNK_token} |->
        CASE i = PAD_token -> "PAD"
          [] i = SOS_token -> "SOS"
          [] i = EOS_token -> "EOS"
          [] OTHER -> "UNK"]

\* Voc(name), no precomputed maps given
Voc(name) ==
    [name |-> name,
     trimmed |-> FALSE,
     word2index |-> [w \in {"UNK"} |-> UNK_token],
     word2count |-> <<>>,
     index2word |-> ReservedIndex2Word,
     num_words |-> 4]

\* a call's outcome: the object after it and the exception it raised
Returned(self) == [self |-> self, exc |-> "None"]
Raised(self, e) == [self |-> self, exc |-> e]

\* mutant of addWord: the insert forgets to advance num_words
addWord_noAdvance(self, word) ==
    IF word \notin DOMAIN self.word2index
    THEN Returned([self EXCEPT
            !.word2index = SetItem(@, word, self.num_words),
            !.word2count = Append(@, [word |-> word, count |-> 1]),
            !.index2word = SetItem(@, self.num_words, word)])
    ELSE IF HasCount(self.word2count, word)
    THEN Returned([self EXCEPT
            !.word2count = [i \in DOMAIN @ |->
                IF @[i].word = word THEN [@[i] EXCEPT !.count = @ + 1] ELSE @[i]]])
    ELSE Raised(self, "KeyError")

\* Voc.addWord; self.word2count[word] += 1 reads the entry first, and raises
\* KeyError before anything is written when the dict has no such key
addWord(self, word) ==
    IF word \notin DOMAIN self.word2index
    THEN Returned([self EXCEPT
            !.word2index = SetItem(@, word, self.num_words),
            !.word2count = Append(@, [word |-> word, count |-> 1]),
            !.index2word = SetItem(@, self.num_words, word),
            !.num_words = @ + 1])
    ELSE IF HasCount(self.word2count, word)
    THEN Returned([self EXCEPT
            !.word2count = [i \in DOMAIN @ |->
                IF @[i].word = word THEN [@[i] EXCEPT !.count = @ + 1] ELSE @[i]]])
    ELSE Raised(self, "KeyError")

\* for word in words: self.addWord(word), the loop ending at the first exception;
\* done counts the calls that completed
addWords(self, words) ==
    LET R[i \in 0..Len(words)] ==
            IF i = 0 THEN [self |-> self, exc |-> "None", done |-> 0]
            ELSE IF R[i - 1].exc # "None" THEN R[i - 1]
            ELSE LET r == addWord(R[i - 1].self, words[i])
                 IN [self |-> r.self, exc |-> r.exc,
                     done |-> IF r.exc = "None" THEN i ELSE i - 1]
    IN R[Len(words)]

\* sentence.split(' '): the pieces between the separators, empty pieces kept
split(sentence) ==
    LET P[i \in 0..Len(sentence)] ==
            IF i = 0 THEN <<"">>
            ELSE IF sentence[i] = " " THEN Append(P[i - 1], "")
            ELSE [P[i - 1] EXCEPT ![Len(P[i - 1])] = @ \o sentence[i]]
    IN P[Len(sentence)]

\* Voc.addSentence
addSentence(self, sentence) == addWords(self, split(sentence))

\* mutant of keep_words: the threshold is compared strictly
keep_words_strict(word2count, min_count) ==
    LET K[i \in 0..Len(word2count)] ==
            IF i = 0 THEN <<>>
            ELSE IF word2count[i].count > min_count
                 THEN Append(K[i - 1], word2count[i].word)
                 ELSE K[i - 1]
    IN K[Len(word2count)]

\* the keys of word2count whose count is at least min_count, in iteration order
keep_words(word2count, min_count) ==
    LET K[i \in 0..Len(word2count)] ==
            IF i = 0 THEN <<>>
            ELSE IF word2count[i].count >= min_count
                 THEN Append(K[i - 1], word2count[i].word)
                 ELSE K[i - 1]
    IN K[Len(word2count)]

\* what trim does once past its guard
trimBody(self, min_count) ==
    addWords([self EXCEPT
                !.trimmed = TRUE,
                !.word2index = [w \in {"UNK"} |-> UNK_token],
                !.word2count = <<>>,
                !.index2word = ReservedIndex2Word,
                !.num_words = 4],
             keep_words(self.word2count, min_count))

\* mutant of trim: the trimmed guard is missing
trim_noGuard(self, min_count) == trimBody(self, min_count)

\* Voc.trim
trim(self, min_count) ==
    IF self.trimmed THEN [self |-> self, exc |-> "None", done |-> 0]
    ELSE trimBody(self, min_count)

\* ------------------------------------------------ the vocabulary's callers

Words == {"a", "b", "d", "UNK", "PAD", "SOS", "EOS"}

\* "a b c", "b c d", "a  b", "b UNK a"
Sentences ==
    { <<"a", " ", "b", " ", "c">>,
      <<"b", " ", "c", " ", "d">>,
      <<"a", " ", " ", "b">>,
      <<"b", " ", "U", "N", "K", " ", "a">> }

MinCounts == {1, 2, 3}

VocStart ==
    /\ voc = Voc("corpus")
    /\ lastOp = [op |-> "Voc", arg |-> "corpus"]
    /\ exc = "None"
    /\ added = {}
    /\ ntrims = 0
    /\ ncalls = 0

AddWord(word) ==
    /\ ncalls < MaxCalls
    /\ LET r == addWord(voc, word)
       IN /\ voc' = r.self
          /\ exc' = r.exc
          /\ added' = IF r.exc = "None" THEN added \cup {word} ELSE added
    /\ lastOp' = [op |-> "addWord", arg |-> word]
    /\ ncalls' = ncalls + 1
    /\ UNCHANGED <<ntrims, flatVars, pairVars, padVars, iterVars, fwVars>>

AddSentence(sentence) ==
    /\ ncalls < MaxCalls
    /\ LET r == addSentence(voc, sentence)
       IN /\ voc' = r.self
          /\ exc' = r.exc
          /\ added' = added \cup Range(Take(split(sentence), r.done))
    /\ lastOp' = [op |-> "addSentence", arg |-> sentence]
    /\ ncalls' = ncalls + 1
    /\ UNCHANGED <<ntrims, flatVars, pairVars, padVars, iterVars, fwVars>>

Trim(min_count) ==
    /\ ncalls < MaxCalls
    /\ LET r == trim(voc, min_count)
       IN /\ voc' = r.self
          /\ exc' = r.exc
    /\ lastOp' = [op |-> "trim", arg |-> min_count]
    /\ ntrims' = ntrims + 1
    /\ ncalls' = ncalls + 1
    /\ UNCHANGED <<added, flatVars, pairVars, padVars, iterVars, fwVars>>

VocNext ==
    \/ \E word \in Words : AddWord(word)
    \/ \E sentence \in Sentences : AddSentence(sentence)
    \/ \E min_count \in MinCounts : Trim(min_count)

\* ------------------------------------------------------- Batch Flattener

\* l.sort(key=lambda x: len(x[0]), reverse=True): Python's sort is stable, and
\* stays so under reverse=True; an insertion sort that puts each element behind
\* the ones whose key is at least its own
sortReverse(l) ==
    LET Key(x) == Len(x[1])
        Insert(s, x) ==
            LET p == Cardinality({i \in DOMAIN s : Key(s[i]) >= Key(x)})
            IN SubSeq(s, 1, p) \o <<x>> \o SubSeq(s, p + 1, Len(s))
        S[i \in 0..Len(l)] == IF i = 0 THEN <<>> ELSE Insert(S[i - 1], l[i])
    IN S[Len(l)]

\* the (utterance, batch_idx, dialog_idx) tuples the two loops append
utt_tuples(batch) ==
    LET T[b \in 0..Len(batch)] ==
            IF b = 0 THEN <<>>
            ELSE T[b - 1] \o [d \in 1..Len(batch[b]) |-> <<batch[b][d], b - 1, d - 1>>]
    IN T[Len(batch)]

\* mutant of dialogBatch2UtteranceBatch: the utterances are sorted alone, the
\* two index lists stay in loop order
dialogBatch2UtteranceBatch_utterancesOnly(batch) ==
    LET loop == utt_tuples(batch)
        tuples == sortReverse(loop)
    IN [utt_batch |-> [k \in DOMAIN tuples |-> tuples[k][1]],
        batch_indices |-> [k \in DOMAIN loop |-> loop[k][2]],
        dialog_indices |-> [k \in DOMAIN loop |-> loop[k][3]]]

\* mutant of dialogBatch2UtteranceBatch: the sort is left out
dialogBatch2UtteranceBatch_unsorted(batch) ==
    LET tuples == utt_tuples(batch)
    IN [utt_batch |-> [k \in DOMAIN tuples |-> tuples[k][1]],
        batch_indices |-> [k \in DOMAIN tuples |-> tuples[k][2]],
        dialog_indices |-> [k \in DOMAIN tuples |-> tuples[k][3]]]

dialogBatch2UtteranceBatch(batch) ==
    LET tuples == sortReverse(utt_tuples(batch))
    IN [utt_batch |-> [k \in DOMAIN tuples |-> tuples[k][1]],
        batch_indices |-> [k \in DOMAIN tuples |-> tuples[k][2]],
        dialog_indices |-> [k \in DOMAIN tuples |-> tuples[k][3]]]

\* the caller's batch: its utterances and tokens counted
RECURSIVE SumLen(_)
SumLen(l) == IF l = <<>> THEN 0 ELSE Len(l[1]) + SumLen(Tail(l))

NumUtterances(batch) == SumLen(batch)

RECURSIVE NumTokens(_)
NumTokens(batch) == IF batch = <<>> THEN 0 ELSE SumLen(batch[1]) + NumTokens(Tail(batch))

NoReturn == [utt_batch |-> <<>>, batch_indices |-> <<>>, dialog_indices |-> <<>>]

FlatIdle ==
    /\ dialog_batch = <<>>
    /\ flat_ret = NoReturn
    /\ flat_pc = "idle"

FlatStart ==
    /\ dialog_batch = <<>>
    /\ flat_ret = NoReturn
    /\ flat_pc = "build"

\* the caller starts another dialog of the batch
NewDialog ==
    /\ flat_pc = "build"
    /\ Len(dialog_batch) < MaxDialogs
    /\ dialog_batch' = Append(dialog_batch, <<>>)
    /\ UNCHANGED <<flat_ret, flat_pc, vocVars, pairVars, padVars, iterVars, fwVars>>

\* the caller puts an utterance of n tokens, none of them used before, behind
\* the last dialog's utterances
NewUtterance(n) ==
    /\ flat_pc = "build"
    /\ dialog_batch # <<>>
    /\ NumUtterances(dialog_batch) < MaxBatchUtts
    /\ LET first == NumTokens(dialog_batch)
           utterance == [t \in 1..n |-> first + t]
       IN dialog_batch' = [dialog_batch EXCEPT ![Len(dialog_batch)] = Append(@, utterance)]
    /\ UNCHANGED <<flat_ret, flat_pc, vocVars, pairVars, padVars, iterVars, fwVars>>

Flatten ==
    /\ flat_pc = "build"
    /\ flat_ret' = dialogBatch2UtteranceBatch(dialog_batch)
    /\ flat_pc' = "done"
    /\ UNCHANGED <<dialog_batch, vocVars, pairVars, padVars, iterVars, fwVars>>

FlatNext ==
    \/ NewDialog
    \/ \E n \in 0..MaxUttLen : NewUtterance(n)
    \/ Flatten

\* ------------------------------------- Dialog Processor and Pair Extractor

\* the characters of the texts below, by the classes the tokenizer's pattern
\* \w+|[^\w\s] tells apart
IsWordChar(c) == c \in {"a", "b", "z", "A", "Z", "_"}

IsSpaceChar(c) == c \in {" "}

\* str.lower, one character
lower(c) == CASE c = "A" -> "a" [] c = "Z" -> "z" [] OTHER -> c

\* the pattern's matches in text[lo..hi], from left to right: a maximal run of
\* word characters, or one character that is neither a word character nor
\* whitespace.  The matches of a stretch are those of its two halves, the run
\* that ends the left half joined to the run that starts the right half.
RECURSIVE findall(_, _, _)
findall(text, lo, hi) ==
    IF lo > hi THEN <<>>
    ELSE IF lo = hi
    THEN IF IsSpaceChar(text[lo]) THEN <<>> ELSE <<text[lo]>>
    ELSE LET mid == (lo + hi) \div 2
             left == findall(text, lo, mid)
             right == findall(text, mid + 1, hi)
         IN IF IsWordChar(text[mid]) /\ IsWordChar(text[mid + 1])
            THEN SubSeq(left, 1, Len(left) - 1)
                    \o <<left[Len(left)] \o right[1]>>
                    \o Tail(right)
            ELSE left \o right

\* tokenize(text): the text lower-cased (unicodeToAscii returns ASCII text as it
\* is), [] when nothing but whitespace is left, and the pattern's matches otherwise
tokenize(text) ==
    LET cleaned_text == [i \in DOMAIN text |-> lower(text[i])]
    IN IF \A i \in DOMAIN cleaned_text : IsSpaceChar(cleaned_text[i])
       THEN <<>>
       ELSE findall(cleaned_text, 1, Len(cleaned_text))

\* mutant of processDialog: the tokens are left as they are
processDialog_asIs(v, dialog) ==
    [u \in DOMAIN dialog |->
        [tokens |-> tokenize(dialog[u].text), id |-> dialog[u].id]]

\* processDialog(voc, dialog): every utterance tokenized, the tokens that are
\* no key of voc.word2index replaced by "UNK"
processDialog(v, dialog) ==
    [u \in DOMAIN dialog |->
        LET tokens == tokenize(dialog[u].text)
        IN [tokens |-> [i \in DOMAIN tokens |->
                            IF tokens[i] \notin DOMAIN v.word2index
                            THEN "UNK" ELSE tokens[i]],
            id |-> dialog[u].id]]

\* mutant of convoPairs: the first utterance is taken for a reply too
convoPairs_fromZero(v, convo) ==
    LET dialog == processDialog(v, convo)
    IN [n \in 1..Len(dialog) |->
            LET idx == n - 1
                reply == Take(At(dialog, idx).tokens, MAX_LENGTH - 1)
                comment_id == At(dialog, idx).id
                context == [u \in 1..idx |-> Take(dialog[u].tokens, MAX_LENGTH - 1)]
            IN <<context, reply, comment_id>>]

\* the pairs loadPairs appends for one conversation: one for every idx in
\* range(1, len(dialog))
convoPairs(v, convo) ==
    LET dialog == processDialog(v, convo)
    IN [n \in 1..(Len(dialog) - 1) |->
            LET idx == n
                reply == Take(At(dialog, idx).tokens, MAX_LENGTH - 1)
                comment_id == At(dialog, idx).id
                context == [u \in 1..idx |-> Take(dialog[u].tokens, MAX_LENGTH - 1)]
            IN <<context, reply, comment_id>>]

\* loadPairs(voc, corpus)
loadPairs(v, c) ==
    LET P[k \in 0..Len(c)] ==
            IF k = 0 THEN <<>> ELSE P[k - 1] \o convoPairs(v, c[k])
    IN P[Len(c)]

\* "a b", "Zz!_a", "", " " and a text of MAX_LENGTH tokens, a ! a ! ...
Texts ==
    { <<"a", " ", "b">>,
      <<"Z", "z", "!", "_", "a">>,
      <<>>,
      <<" ">>,
      [i \in 1..(2 * MAX_LENGTH - 1) |->
            IF i % 4 = 1 THEN "a" ELSE IF i % 4 = 3 THEN "!" ELSE " "] }

\* the vocabularies a corpus is read with
PairVocs ==
    { Voc("corpus"),
      addSentence(Voc("corpus"), <<"a", " ", "b", " ", "c">>).self }

\* no vocabulary: loadPairs has not been called
NoVoc == [name |-> "None"]

PairsIdle ==
    /\ corpus = <<>>
    /\ pairs = <<>>
    /\ pairs_pc = "idle"
    /\ pairs_voc = NoVoc

\* the collaborator starts to fill a corpus
PairsStart ==
    /\ corpus = <<>>
    /\ pairs = <<>>
    /\ pairs_pc = "build"
    /\ pairs_voc = NoVoc

\* another conversation enters the corpus
NewConversation ==
    /\ pairs_pc = "build"
    /\ Len(corpus) < MaxConvos
    /\ corpus' = Append(corpus, <<>>)
    /\ UNCHANGED <<pairs, pairs_pc, pairs_voc, vocVars, flatVars, padVars, iterVars, fwVars>>

\* another utterance enters the last conversation; its id is the corpus' next
NewComment(text) ==
    /\ pairs_pc = "build"
    /\ corpus # <<>>
    /\ SumLen(corpus) < MaxCorpusUtts
    /\ corpus' = [corpus EXCEPT ![Len(corpus)] =
                        Append(@, [text |-> text, id |-> SumLen(corpus)])]
    /\ UNCHANGED <<pairs, pairs_pc, pairs_voc, vocVars, flatVars, padVars, iterVars, fwVars>>

LoadPairs ==
    /\ pairs_pc = "build"
    /\ pairs' = loadPairs(voc, corpus)
    /\ pairs_pc' = "done"
    /\ pairs_voc' = voc
    /\ UNCHANGED <<corpus, vocVars, flatVars, padVars, iterVars, fwVars>>

\* ------------------------------------------------------------ Tensorizer

\* indexesFromSentence(voc, sentence); voc.word2index[word] raises KeyError for
\* a word that is no key
indexesFromSentence(v, sentence) ==
    IF \A i \in DOMAIN sentence : sentence[i] \in DOMAIN v.word2index
    THEN [value |-> [i \in DOMAIN sentence |-> v.word2index[sentence[i]]] \o <<EOS_token>>,
          exc |-> "None"]
    ELSE [value |-> <<>>, exc |-> "KeyError"]

\* [indexesFromSentence(voc, sentence) for sentence in l]
indexes_batch(l, v) ==
    IF \A j \in DOMAIN l : indexesFromSentence(v, l[j]).exc = "None"
    THEN [value |-> [j \in DOMAIN l |-> indexesFromSentence(v, l[j]).value], exc |-> "None"]
    ELSE [value |-> <<>>, exc |-> "KeyError"]

\* itertools.zip: a row of the iterators' next elements for as long as none is
\* exhausted
RECURSIVE zip(_)
zip(its) ==
    IF its = <<>> \/ \E j \in DOMAIN its : its[j] = <<>>
    THEN <<>>
    ELSE <<[j \in DOMAIN its |-> Head(its[j])]>> \o zip([j \in DOMAIN its |-> Tail(its[j])])

\* itertools.zip_longest: a row of the iterators' next elements, fillvalue for
\* an exhausted one, for as long as one of them has an element left
RECURSIVE zip_longest(_, _)
zip_longest(its, fillvalue) ==
    IF \A j \in DOMAIN its : its[j] = <<>>
    THEN <<>>
    ELSE <<[j \in DOMAIN its |-> IF its[j] = <<>> THEN fillvalue ELSE Head(its[j])]>>
            \o zip_longest([j \in DOMAIN its |-> IF its[j] = <<>> THEN <<>> ELSE Tail(its[j])],
                           fillvalue)

\* mutant of zeroPadding: zip in place of zip_longest
zeroPadding_zip(l, fillvalue) == zip(l)

zeroPadding(l, fillvalue) == zip_longest(l, fillvalue)

\* mutant of binaryMatrix: the tokens are compared with EOS_token
binaryMatrix_eos(l, value) ==
    [i \in DOMAIN l |-> [t \in DOMAIN l[i] |-> IF l[i][t] = EOS_token THEN 0 ELSE 1]]

\* binaryMatrix(l, value): the tokens are compared with PAD_token, not with value
binaryMatrix(l, value) ==
    [i \in DOMAIN l |-> [t \in DOMAIN l[i] |-> IF l[i][t] = PAD_token THEN 0 ELSE 1]]

\* torch.LongTensor, torch.tensor: the rows' entries, as they are for entries of 64 bits
LongTensor(m) == m

\* torch.ByteTensor: the rows' entries as unsigned bytes
ByteTensor(m) == [i \in DOMAIN m |-> [t \in DOMAIN m[i] |-> m[i][t] % 256]]

\* max of a non-empty list
Max(l) == CHOOSE x \in Range(l) : \A y \in Range(l) : y <= x

\* inputVar(l, voc)
inputVar(l, v) ==
    LET ib == indexes_batch(l, v)
        lengths == [j \in DOMAIN ib.value |-> Len(ib.value[j])]
        padList == zeroPadding(ib.value, PAD_token)
    IN IF ib.exc # "None" THEN [exc |-> ib.exc]
       ELSE [padVar |-> LongTensor(padList), lengths |-> lengths, exc |-> "None"]

\* outputVar(l, voc); max([]) raises ValueError
outputVar(l, v) ==
    LET ib == indexes_batch(l, v)
        padList == zeroPadding(ib.value, PAD_token)
        mask == binaryMatrix(padList, PAD_token)
    IN IF ib.exc # "None" THEN [exc |-> ib.exc]
       ELSE IF ib.value = <<>> THEN [exc |-> "ValueError"]
       ELSE [padVar |-> LongTensor(padList),
             mask |-> ByteTensor(mask),
             max_target_len |-> Max([j \in DOMAIN ib.value |-> Len(ib.value[j])]),
             exc |-> "None"]

\* the lists of at most MaxSeqs sequences of at most MaxSeqLen elements of S
SeqsOf(S) == UNION {[1..n -> S] : n \in 0..MaxSeqLen}

ListsOf(S) == UNION {[1..n -> SeqsOf(S)] : n \in 0..MaxSeqs}

\* index sequences, PAD_token among the indices, and token sequences, a token
\* that is no word of the vocabulary among them
IndexLists == ListsOf({PAD_token, 4})

TokenLists == ListsOf({"a", "q"})

\* the vocabulary the token sequences are indexed with
PadVoc == addSentence(Voc("corpus"), <<"a", " ", "b", " ", "c">>).self

PadIdle ==
    /\ pad_call = "idle"
    /\ pad_args = <<>>
    /\ pad_ret = <<>>
    /\ pad_exc = "None"

PadStart ==
    /\ pad_call = "none"
    /\ pad_args = <<>>
    /\ pad_ret = <<>>
    /\ pad_exc = "None"

ZeroPadding(l) ==
    /\ pad_call = "none"
    /\ pad_call' = "zeroPadding"
    /\ pad_args' = l
    /\ pad_ret' = zeroPadding(l, PAD_token)
    /\ pad_exc' = "None"
    /\ UNCHANGED <<vocVars, flatVars, pairVars, iterVars, fwVars>>

InputVar(l) ==
    /\ pad_call = "none"
    /\ pad_call' = "inputVar"
    /\ pad_args' = l
    /\ pad_ret' = inputVar(l, voc)
    /\ pad_exc' = inputVar(l, voc).exc
    /\ UNCHANGED <<vocVars, flatVars, pairVars, iterVars, fwVars>>

OutputVar(l) ==
    /\ pad_call = "none"
    /\ pad_call' = "outputVar"
    /\ pad_args' = l
    /\ pad_ret' = outputVar(l, voc)
    /\ pad_exc' = outputVar(l, voc).exc
    /\ UNCHANGED <<vocVars, flatVars, pairVars, iterVars, fwVars>>

\* the sentences the tensorizer looks up for a list of pairs: every pair's
\* context utterances (inputVar, through batch2TrainData's input_batch) and its
\* reply (outputVar, through its output_batch)
pair_sentences(pair_list) ==
    LET S[k \in 0..Len(pair_list)] ==
            IF k = 0 THEN <<>>
            ELSE S[k - 1] \o pair_list[k][1] \o <<pair_list[k][2]>>
    IN S[Len(pair_list)]

\* indexesFromSentence on every context utterance and every reply of the pairs
\* loadPairs returned, with the vocabulary as it is now
IndexPairs ==
    /\ pairs_pc = "done"
    /\ pad_call = "none"
    /\ pad_call' = "indexesFromSentence"
    /\ pad_args' = [voc |-> voc, l |-> pair_sentences(pairs)]
    /\ pad_ret' = indexes_batch(pair_sentences(pairs), voc).value
    /\ pad_exc' = indexes_batch(pair_sentences(pairs), voc).exc
    /\ UNCHANGED <<vocVars, flatVars, pairVars, iterVars, fwVars>>

\* the calls made on the vocabulary and the texts of the corpus where the
\* vocabulary, the pairs and the lookup meet: "zz" and "b" can be words of the
\* vocabulary, "!" and "_a" never are
LookupWords == {"zz", "UNK"}

LookupSentences == { <<"a", " ", "b">> }

LookupMinCounts == {2}

LookupTexts == { <<"Z", "z", "!", "_", "a", " ", "b">> }

\* --------------------------------------------------------- Batch Iterator

\* mutant of Slice: the element at b is taken too
Slice_inclusive(l, a, b) == SubSeq(l, a + 1, IF b + 1 < Len(l) THEN b + 1 ELSE Len(l))

\* l[a:b] of a Python list, 0 <= a <= b
Slice(l, a, b) == SubSeq(l, a + 1, IF b < Len(l) THEN b ELSE Len(l))

\* batch2TrainData(voc, pair_batch, already_sorted)
batch2TrainData(v, pair_batch, already_sorted) ==
    LET batch == IF already_sorted THEN pair_batch
                 ELSE sortReverse(pair_batch)
        input_batch == [k \in DOMAIN batch |-> batch[k][1]]
        output_batch == [k \in DOMAIN batch |-> batch[k][2]]
        id_batch == [k \in DOMAIN batch |-> batch[k][3]]
        dialog_lengths == [k \in DOMAIN input_batch |-> Len(input_batch[k])]
        flat == dialogBatch2UtteranceBatch(input_batch)
        inp == inputVar(flat.utt_batch, v)
        out == outputVar(output_batch, v)
    IN IF inp.exc # "None" THEN [exc |-> inp.exc]
       ELSE IF out.exc # "None" THEN [exc |-> out.exc]
       ELSE [inp |-> inp.padVar,
             dialog_lengths |-> dialog_lengths,
             utt_lengths |-> inp.lengths,
             batch_indices |-> flat.batch_indices,
             dialog_indices |-> flat.dialog_indices,
             id_batch |-> id_batch,
             output |-> out.padVar,
             mask |-> out.mask,
             max_target_len |-> out.max_target_len,
             exc |-> "None"]

\* the orders random.shuffle may leave a list in
Shuffles(l) == {[i \in DOMAIN l |-> l[perm[i]]] : perm \in Permutations(DOMAIN l)}

\* mutant of wraps: the cursor has to pass the end
wraps_strict(cur, data) == cur > Len(data)

\* the loop's test of the cursor
wraps(cur, data) == cur >= Len(data)

\* the loop's body from its top to the yield, entered with cursor cur and the
\* list as data
LoopToYield(cur, data) ==
    LET start == IF wraps(cur, data) THEN 0 ELSE cur
    IN \E shuffled \in (IF wraps(cur, data) /\ shuffle THEN Shuffles(data) ELSE {data}) :
        LET batch == sortReverse(Slice(shuffled, start, start + batch_size))
            true_batch_size == Len(batch)
            batch_dialogs == [k \in DOMAIN batch |-> batch[k][1]]
            batch_tensors == batch2TrainData(voc, batch, TRUE)
        IN /\ source_data' = shuffled
           /\ cur_idx' = start
           /\ IF batch_tensors.exc # "None"
              THEN /\ it_pc' = "raised"
                   /\ it_exc' = batch_tensors.exc
                   /\ UNCHANGED yields
              ELSE /\ it_pc' = "yielded"
                   /\ UNCHANGED it_exc
                   /\ yields' = Append(yields,
                        [cur_idx |-> start,
                         batch_tensors |-> batch_tensors,
                         batch_dialogs |-> batch_dialogs,
                         true_batch_size |-> true_batch_size])

\* the first next() of the generator: the code before the loop, then the loop
\* to its yield
StartIterator ==
    /\ it_pc = "created"
    /\ \E first \in (IF shuffle THEN Shuffles(source_data) ELSE {source_data}) :
            LoopToYield(0, first)
    /\ UNCHANGED <<batch_size, shuffle, vocVars, flatVars, pairVars, padVars, fwVars>>

\* a later next(): the cursor advanced behind the yield, then the loop to its yield
ResumeIterator ==
    /\ it_pc = "yielded"
    /\ Len(yields) < MaxPolls
    /\ LoopToYield(cur_idx + batch_size, source_data)
    /\ UNCHANGED <<batch_size, shuffle, vocVars, flatVars, pairVars, padVars, fwVars>>

\* a dataset of n pairs (context, reply, id): contexts of one to three
\* utterances, utterances of no to two tokens, all of them words of PadVoc
Utterance(k) == [t \in 1..(k % 3) |-> IF t = 1 THEN "a" ELSE "b"]

Dataset(n) ==
    [i \in 1..n |->
        << [u \in 1..((i % 3) + 1) |-> Utterance(i + u)], Utterance(i + 1), i >>]

IterIdle ==
    /\ source_data = <<>>
    /\ batch_size = 1
    /\ shuffle = FALSE
    /\ cur_idx = 0
    /\ it_pc = "idle"
    /\ it_exc = "None"
    /\ yields = <<>>

\* ---------------------------------------------------------- FightingWords

\* Python's None, and a value that is not None
None == [some |-> FALSE]

Some(v) == [some |-> TRUE, value |-> v]

\* string.punctuation and whitespace, as far as the texts below have them
IsPunctuation(ch) == ch \in {"!", "_"}

\* str.split(): the pieces between runs of whitespace, none of them empty;
\* every piece a list of characters
fw_split(str_) ==
    LET P[i \in 0..Len(str_)] ==
            IF i = 0 THEN <<>>
            ELSE IF IsSpaceChar(str_[i]) THEN P[i - 1]
            ELSE IF i > 1 /\ ~IsSpaceChar(str_[i - 1])
                 THEN [P[i - 1] EXCEPT ![Len(P[i - 1])] = Append(@, str_[i])]
                 ELSE Append(P[i - 1], <<str_[i]>>)
    IN P[Len(str_)]

\* ' '.join(pieces)
fw_join(pieces) ==
    LET J[i \in 0..Len(pieces)] ==
            IF i = 0 THEN <<>>
            ELSE IF i = 1 THEN pieces[1]
            ELSE J[i - 1] \o <<" ">> \o pieces[i]
    IN J[Len(pieces)]

\* FightingWords._basic_sanitize: whitespace normalised, punctuation dropped,
\* lower-cased, whitespace normalised again (the texts are ASCII)
_basic_sanitize(in_string) ==
    LET joined == fw_join(fw_split(in_string))
        kept == SelectSeq(joined, LAMBDA ch : ~IsPunctuation(ch))
        lowered == [i \in DOMAIN kept |-> lower(kept[i])]
    IN fw_join(fw_split(lowered))

\* the characters of a piece as one string
AsString(piece) ==
    LET C[i \in 0..Len(piece)] == IF i = 0 THEN "" ELSE C[i - 1] \o piece[i]
    IN C[Len(piece)]

\* the ngrams the caller's CountVectorizer finds in a document: its words
cv_analyze(doc) == [i \in DOMAIN fw_split(doc) |-> AsString(fw_split(doc)[i])]

\* cv.fit_transform(docs): the vocabulary of the documents and, for every
\* document, the count of every ngram of the vocabulary; ValueError for an
\* empty vocabulary
cv_fit_transform(docs) ==
    LET vocabulary_ == UNION {Range(cv_analyze(docs[d])) : d \in DOMAIN docs}
    IN IF vocabulary_ = {}
       THEN [exc |-> "ValueError", vocabulary_ |-> {}, counts_mat |-> <<>>]
       ELSE [exc |-> "None",
             vocabulary_ |-> vocabulary_,
             counts_mat |-> [d \in DOMAIN docs |->
                 [w \in vocabulary_ |->
                     Cardinality({i \in DOMAIN cv_analyze(docs[d]) :
                                        cv_analyze(docs[d])[i] = w})]]]

\* the sum of f over the indices lo..hi
RECURSIVE SumOver(_, _, _)
SumOver(f, lo, hi) == IF lo > hi THEN 0 ELSE f[lo] + SumOver(f, lo + 1, hi)

\* FightingWords._bayes_compare_language.  The z-score of an ngram is a
\* floating-point function of its two class counts, the class totals and the
\* prior; it stands here as the pair of class counts it is computed from.
_bayes_compare_language(class1, class2) ==
    LET docs1 == [i \in DOMAIN class1 |-> _basic_sanitize(class1[i].text)]
        docs2 == [i \in DOMAIN class2 |-> _basic_sanitize(class2[i].text)]
        cv == cv_fit_transform(docs1 \o docs2)
        count_mat == [w \in cv.vocabulary_ |->
            << SumOver([d \in DOMAIN cv.counts_mat |-> cv.counts_mat[d][w]],
                       1, Len(docs1)),
               SumOver([d \in DOMAIN cv.counts_mat |-> cv.counts_mat[d][w]],
                       Len(docs1) + 1, Len(docs1) + Len(docs2)) >>]
    IN IF cv.exc # "None"
       THEN [exc |-> cv.exc]
       ELSE [exc |-> "None", count_matrix |-> count_mat, z_scores |-> count_mat]

\* the comparator after FightingWords.__init__
FightingWords == [ngram_zscores |-> None, count_matrix |-> None]

\* the selectors: what the utterance's labels say
class1_selector(utt) == utt.class1

class2_selector(utt) == utt.class2

\* mutant of fit: the two classes are not checked for being empty
fit_unchecked(self, corpus_) ==
    LET class1 == SelectSeq(corpus_, class1_selector)
        class2 == SelectSeq(corpus_, LAMBDA utt : ~class1_selector(utt) /\ class2_selector(utt))
        r == _bayes_compare_language(class1, class2)
    IN IF r.exc # "None" THEN [self |-> self, exc |-> r.exc, value |-> None]
       ELSE [self |-> [ngram_zscores |-> Some(r.z_scores),
                       count_matrix |-> Some(r.count_matrix)],
             exc |-> "None", value |-> None]

\* FightingWords.fit
fit(self, corpus_) ==
    LET class1 == SelectSeq(corpus_, class1_selector)
        class2 == SelectSeq(corpus_, LAMBDA utt : ~class1_selector(utt) /\ class2_selector(utt))
        r == _bayes_compare_language(class1, class2)
    IN IF Len(class1) = 0 THEN [self |-> self, exc |-> "ValueError", value |-> None]
       ELSE IF Len(class2) = 0 THEN [self |-> self, exc |-> "ValueError", value |-> None]
       ELSE IF r.exc # "None" THEN [self |-> self, exc |-> r.exc, value |-> None]
       ELSE [self |-> [ngram_zscores |-> Some(r.z_scores),
                       count_matrix |-> Some(r.count_matrix)],
             exc |-> "None", value |-> None]

\* FightingWords.get_ngram_zscores: the scores as a table
get_ngram_zscores(self) ==
    IF self.ngram_zscores = None
    THEN [self |-> self, exc |-> "ValueError", value |-> None]
    ELSE [self |-> self, exc |-> "None", value |-> self.ngram_zscores]

\* FightingWords.get_top_k_ngrams.  The two lists are cut from the ngrams in
\* the order of their scores; the value stands as the ngrams they are cut from.
get_top_k_ngrams(self, top_k) ==
    IF self.ngram_zscores = None
    THEN [self |-> self, exc |-> "ValueError", value |-> None]
    ELSE [self |-> self, exc |-> "None",
          value |-> Some(DOMAIN get_ngram_zscores(self).value.value)]

\* FightingWords.get_ngrams_past_threshold.  The two lists are picked from the
\* ngrams by their scores; the value stands as the ngrams they are picked from.
get_ngrams_past_threshold(self, threshold) ==
    IF self.ngram_zscores = None
    THEN [self |-> self, exc |-> "ValueError", value |-> None]
    ELSE [self |-> self, exc |-> "None",
          value |-> Some(DOMAIN self.ngram_zscores.value)]

\* FightingWords.get_zscore: self.ngram_zscores.get(ngram, None)
get_zscore(self, ngram) ==
    IF self.ngram_zscores = None
    THEN [self |-> self, exc |-> "ValueError", value |-> None]
    ELSE [self |-> self, exc |-> "None",
          value |-> IF ngram \in DOMAIN self.ngram_zscores.value
                    THEN Some(self.ngram_zscores.value[ngram])
                    ELSE None]

\* FightingWords.summarize(corpus, plot=False): fits if not fitted yet
summarize(self, corpus_) ==
    IF self.ngram_zscores = None /\ fit(self, corpus_).exc # "None"
    THEN fit(self, corpus_)
    ELSE get_ngram_zscores(IF self.ngram_zscores = None
                           THEN fit(self, corpus_).self ELSE self)

\* the utterances of the corpus: "A  b!" and "!", which the sanitizer turns
\* into "a b" and "", each selected by class1_selector, class2_selector, both
\* or none
FwTexts == { <<"A", " ", " ", "b", "!">>, <<"!">> }

FwNgrams == {"a", "zz"}

FwTopKs == {0, 1}

FwThresholds == {0, 1}

\* no comparator
FwIdle ==
    /\ fw_corpus = <<>>
    /\ ngram_zscores = None
    /\ count_matrix = None
    /\ fw_op = [op |-> "idle", exc |-> "None", value |-> None]
    /\ fw_fitted = FALSE
    /\ fw_failed = FALSE
    /\ fw_calls = 0

\* a comparator as FightingWords.__init__ leaves it, with a CountVectorizer of
\* the caller
FwStart ==
    /\ fw_corpus = <<>>
    /\ ngram_zscores = FightingWords.ngram_zscores
    /\ count_matrix = FightingWords.count_matrix
    /\ fw_op = [op |-> "__init__", exc |-> "None", value |-> None]
    /\ fw_fitted = FALSE
    /\ fw_failed = FALSE
    /\ fw_calls = 0

\* the comparator as the variables hold it
FwSelf == [ngram_zscores |-> ngram_zscores, count_matrix |-> count_matrix]

\* a call on the comparator ended as r says
FwCall(name, r) ==
    /\ fw_calls < MaxFwCalls
    /\ fw_calls' = fw_calls + 1
    /\ ngram_zscores' = r.self.ngram_zscores
    /\ count_matrix' = r.self.count_matrix
    /\ fw_op' = [op |-> name, exc |-> r.exc, value |-> r.value]
    /\ UNCHANGED <<fw_corpus, vocVars, flatVars, pairVars, padVars, iterVars>>

\* another utterance enters the corpus
FwNewUtterance(text, c1, c2) ==
    /\ Len(fw_corpus) < MaxFwUtts
    /\ fw_corpus' = Append(fw_corpus, [text |-> text, class1 |-> c1, class2 |-> c2])
    /\ UNCHANGED <<ngram_zscores, count_matrix, fw_op, fw_fitted, fw_failed, fw_calls,
                   vocVars, flatVars, pairVars, padVars, iterVars>>

Fit ==
    /\ FwCall("fit", fit(FwSelf, fw_corpus))
    /\ fw_fitted' = (fw_fitted \/ fit(FwSelf, fw_corpus).exc = "None")
    /\ fw_failed' = (fw_failed \/ fit(FwSelf, fw_corpus).exc # "None")

Summarize ==
    /\ FwCall("summarize", summarize(FwSelf, fw_corpus))
    /\ fw_fitted' = (fw_fitted \/ (ngram_zscores = None
                                    /\ fit(FwSelf, fw_corpus).exc = "None"))
    /\ fw_failed' = (fw_failed \/ (ngram_zscores = None
                                    /\ fit(FwSelf, fw_corpus).exc # "None"))

GetTopKNgrams(top_k) ==
    /\ FwCall("get_top_k_ngrams", get_top_k_ngrams(FwSelf, top_k))
    /\ UNCHANGED <<fw_fitted, fw_failed>>

GetNgramsPastThreshold(threshold) ==
    /\ FwCall("get_ngrams_past_threshold", get_ngrams_past_threshold(FwSelf, threshold))
    /\ UNCHANGED <<fw_fitted, fw_failed>>

GetZscore(ngram) ==
    /\ FwCall("get_zscore", get_zscore(FwSelf, ngram))
    /\ UNCHANGED <<fw_fitted, fw_failed>>

\* ------------------------------------------------- claims on the vocabulary

ReservedWords == {"PAD", "SOS", "EOS", "UNK"}

CountedWords(word2count) == {word2count[i].word : i \in DOMAIN word2count}

\* C3 as stated: after addWord calls word2index and index2word are exact inverses
\* over the inserted words plus PAD, SOS, EOS and UNK, and both have as many
\* entries as there are distinct inserted words plus four.
C3_InversesOverReserved ==
    ~voc.trimmed =>
        /\ DOMAIN voc.word2index = added \cup ReservedWords
        /\ \A w \in added \cup ReservedWords :
                /\ w \in DOMAIN voc.word2index
                /\ voc.index2word[voc.word2index[w]] = w
        /\ \A i \in DOMAIN voc.index2word :
                /\ voc.index2word[i] \in DOMAIN voc.word2index
                /\ voc.word2index[voc.index2word[i]] = i
        /\ Cardinality(DOMAIN voc.word2index) = Cardinality(added) + 4
        /\ Cardinality(DOMAIN voc.index2word) = Cardinality(added) + 4

\* C3 as amended: word2index holds UNK and the inserted words only, and is inverted
\* by index2word on every key; index2word holds the indices 0..num_words-1, maps
\* 0, 1, 2 to PAD, SOS, EOS and is inverted by word2index from index 3 on; before a
\* trim index2word has as many entries as distinct inserted words plus four and
\* word2index as many as distinct inserted words plus one (UNK is never inserted:
\* addWord("UNK") raises).
C3_Inverses ==
    /\ \A w \in DOMAIN voc.word2index :
            /\ voc.word2index[w] \in DOMAIN voc.index2word
            /\ voc.index2word[voc.word2index[w]] = w
    /\ DOMAIN voc.index2word = 0..(voc.num_words - 1)
    /\ \A i \in DOMAIN voc.index2word :
            IF i >= UNK_token
            THEN /\ voc.index2word[i] \in DOMAIN voc.word2index
                 /\ voc.word2index[voc.index2word[i]] = i
            ELSE voc.index2word[i] = ReservedIndex2Word[i]
    /\ voc.word2index["UNK"] = UNK_token
    /\ ~voc.trimmed =>
            /\ DOMAIN voc.word2index = added \cup {"UNK"}
            /\ "UNK" \notin added
            /\ Cardinality(DOMAIN voc.index2word) = Cardinality(added) + 4
            /\ Cardinality(DOMAIN voc.word2index) = Cardinality(added) + 1

\* C3's case: several distinct words inserted, a reserved name among them, one
\* of them more than once, and no trim yet
C3_Witness ==
    /\ ~voc.trimmed
    /\ "PAD" \in added
    /\ Cardinality(added) >= 3
    /\ \E i \in DOMAIN voc.word2count : voc.word2count[i].count >= 2

\* C4: a trim of a trimmed vocabulary changes nothing of it, whatever its
\* min_count, and trimmed stays true in every later operation.
C4_TrimOnce ==
    [][voc.trimmed => /\ voc'.trimmed
                      /\ lastOp'.op = "trim" => voc' = voc]_vars

\* C4's case: a second trim, with a min_count that none of the retained words
\* meets, came after the first and the words are still there
C4_Witness ==
    /\ ntrims = 2
    /\ lastOp.op = "trim"
    /\ voc.trimmed
    /\ voc.num_words > 4
    /\ \A i \in DOMAIN voc.word2count : voc.word2count[i].count < lastOp.arg

\* the words trim(min_count) has to retain
Frequent(self, min_count) ==
    {w \in CountedWords(self.word2count) : CountOf(self.word2count, w) >= min_count}

\* C5: trim(min_count) of an untrimmed vocabulary retains exactly the words counted
\* at least min_count times, gives them the indices 4, 5, ... in their first-seen
\* order and sets num_words to 4 plus their number; after "a b c" and "b c d",
\* trim(2) retains b and c only and num_words is 6.
C5_TrimRetains ==
    /\ [][(lastOp'.op = "trim" /\ ~voc.trimmed) =>
            LET kept == Frequent(voc, lastOp'.arg)
            IN /\ exc' = "None"
               /\ voc'.trimmed
               /\ DOMAIN voc'.word2index = kept \cup {"UNK"}
               /\ {voc'.word2index[w] : w \in kept} = 4..(3 + Cardinality(kept))
               /\ \A w1, w2 \in kept :
                     voc.word2index[w1] < voc.word2index[w2]
                        => voc'.word2index[w1] < voc'.word2index[w2]
               /\ \A w \in kept : voc'.index2word[voc'.word2index[w]] = w
               /\ DOMAIN voc'.index2word = 0..(3 + Cardinality(kept))
               /\ voc'.num_words = 4 + Cardinality(kept)]_vars
    /\ [][(/\ ncalls = 2
            /\ voc = addSentence(addSentence(Voc("corpus"), <<"a", " ", "b", " ", "c">>).self,
                                  <<"b", " ", "c", " ", "d">>).self
            /\ voc.word2count = << [word |-> "a", count |-> 1], [word |-> "b", count |-> 2],
                                   [word |-> "c", count |-> 2], [word |-> "d", count |-> 1] >>
            /\ lastOp'.op = "trim"
            /\ lastOp'.arg = 2)
            => /\ DOMAIN voc'.word2index = {"UNK", "b", "c"}
               /\ voc'.word2index["b"] = 4
               /\ voc'.word2index["c"] = 5
               /\ Cardinality(DOMAIN voc'.index2word) = 6
               /\ voc'.num_words = 6]_vars

\* C5's case: the vocabulary of "a b c" and "b c d" right after its trim(2)
C5_Witness ==
    /\ ncalls = 3
    /\ ntrims = 1
    /\ added = {"a", "b", "c", "d"}
    /\ lastOp.op = "trim"
    /\ lastOp.arg = 2
    /\ voc.trimmed
    /\ CountedWords(voc.word2count) = {"b", "c"}

\* C6: every addWord call completes; it inserts an absent word at the next
\* sequential index with count 1 and otherwise adds one to the word's count and
\* leaves its index alone.
C6_AddWordNeverRaises ==
    [][lastOp'.op = "addWord" =>
        LET word == lastOp'.arg
        IN /\ exc' = "None"
           /\ IF word \notin DOMAIN voc.word2index
              THEN /\ voc'.word2index[word] = voc.num_words
                   /\ CountOf(voc'.word2count, word) = 1
              ELSE /\ voc'.word2index[word] = voc.word2index[word]
                   /\ CountOf(voc'.word2count, word)
                        = CountOf(voc.word2count, word) + 1]_vars

\* --------------------------------------------- claims on the batch flattener

\* the (dialog, position) pairs of a batch, both 0-based
Positions(batch) ==
    UNION { {<<b, d>> : d \in 0..(Len(At(batch, b)) - 1)} : b \in 0..(Len(batch) - 1) }

\* C1: every returned utterance is the input's utterance at the (dialog,
\* position) returned beside it, and the returned (dialog, position) pairs are
\* the input's positions, each exactly once.
C1_RoundTrip ==
    flat_pc = "done" =>
        LET r == flat_ret
            L == Len(r.utt_batch)
        IN /\ Len(r.batch_indices) = L
           /\ Len(r.dialog_indices) = L
           /\ \A k \in 1..L :
                /\ <<r.batch_indices[k], r.dialog_indices[k]>> \in Positions(dialog_batch)
                /\ r.utt_batch[k]
                     = At(At(dialog_batch, r.batch_indices[k]), r.dialog_indices[k])
           /\ {<<r.batch_indices[k], r.dialog_indices[k]>> : k \in 1..L}
                = Positions(dialog_batch)
           /\ L = Cardinality(Positions(dialog_batch))

\* C1's case: two dialogs with utterances, an empty utterance among them, and
\* an utterance of the second dialog returned first
C1_Witness ==
    /\ flat_pc = "done"
    /\ Len(dialog_batch) = 2
    /\ dialog_batch[1] # <<>>
    /\ <<>> \in Range(flat_ret.utt_batch)
    /\ flat_ret.batch_indices[1] = 1
    /\ flat_ret.dialog_indices[1] = 1

\* C2: the three returned lists are as long as the batch has utterances, and
\* the utterances come in non-increasing token count; for [[1,2],[3],[4,5,6]]
\* the token counts are [3,2,1] and the positions [2,0,1].
C2_LongestFirst ==
    flat_pc = "done" =>
        LET r == flat_ret
            L == NumUtterances(dialog_batch)
        IN /\ Len(r.utt_batch) = L
           /\ Len(r.batch_indices) = L
           /\ Len(r.dialog_indices) = L
           /\ \A k \in 1..(L - 1) : Len(r.utt_batch[k]) >= Len(r.utt_batch[k + 1])
           /\ dialog_batch = << << <<1, 2>>, <<3>>, <<4, 5, 6>> >> >>
                => /\ [k \in 1..L |-> Len(r.utt_batch[k])] = <<3, 2, 1>>
                   /\ r.dialog_indices = <<2, 0, 1>>
                   /\ r.batch_indices = <<0, 0, 0>>

\* C2's case: the dialog [[1,2],[3],[4,5,6]] flattened
C2_Witness ==
    /\ flat_pc = "done"
    /\ dialog_batch = << << <<1, 2>>, <<3>>, <<4, 5, 6>> >> >>
    /\ flat_ret.utt_batch = << <<4, 5, 6>>, <<1, 2>>, <<3>> >>

\* ---------------------------------------------- claims on the pair extractor

\* the pairs of the conversations before conversation c
RECURSIVE PairsBefore(_)
PairsBefore(c) ==
    IF c = 1 THEN 0
    ELSE PairsBefore(c - 1) + (IF Len(corpus[c - 1]) > 1 THEN Len(corpus[c - 1]) - 1 ELSE 0)

\* every conversation of N utterances has max(N-1, 0) pairs, one for each reply
\* index i in 1..N-1, with utterance i's id, whose context followed by its reply
\* are the first i+1 processed utterances, each cut to its first MAX_LENGTH - 1
\* tokens if cut and whole otherwise
PairsShow(cut) ==
    LET Shown(tokens) == IF cut THEN Take(tokens, MAX_LENGTH - 1) ELSE tokens
    IN
    /\ Len(pairs) = PairsBefore(Len(corpus) + 1)
    /\ \A c \in DOMAIN corpus :
        LET dialog == processDialog(voc, corpus[c])
        IN \A i \in 1..(Len(corpus[c]) - 1) :
            LET pair == pairs[PairsBefore(c) + i]
            IN /\ Len(pair[1]) = i
               /\ pair[3] = At(corpus[c], i).id
               /\ pair[1] \o <<pair[2]>> = [u \in 1..(i + 1) |-> Shown(dialog[u].tokens)]

LongestLen(l) == IF l = <<>> THEN 0 ELSE Max([j \in DOMAIN l |-> Len(l[j])])

\* m is l in time-major layout: a row for every time step up to the longest
\* sequence, a column for every sequence, fill behind a sequence's end, and the
\* first len(l[j]) entries of column j are l[j]
TimeMajor(m, l, fill) ==
    /\ Len(m) = LongestLen(l)
    /\ \A t \in DOMAIN m :
        /\ Len(m[t]) = Len(l)
        /\ \A j \in DOMAIN l :
                m[t][j] = IF t <= Len(l[j]) THEN l[j][t] ELSE fill
    /\ \A j \in DOMAIN l : [t \in 1..Len(l[j]) |-> m[t][j]] = l[j]

\* C8: zeroPadding returns its argument in time-major layout, PAD behind every
\* sequence's end, and the first len entries of a column are the column's
\* sequence; so for the index sequences inputVar pads and the lengths it returns.
C8_PaddingRoundTrip ==
    /\ pad_call = "zeroPadding" => TimeMajor(pad_ret, pad_args, PAD_token)
    /\ (pad_call = "inputVar" /\ pad_exc = "None") =>
            /\ Len(pad_ret.lengths) = Len(pad_args)
            /\ \A j \in DOMAIN pad_args :
                 /\ pad_ret.lengths[j] = Len(pad_args[j]) + 1
                 /\ [t \in 1..pad_ret.lengths[j] |-> pad_ret.padVar[t][j]]
                      = indexesFromSentence(voc, pad_args[j]).value
            /\ TimeMajor(pad_ret.padVar,
                         [j \in DOMAIN pad_args |-> indexesFromSentence(voc, pad_args[j]).value],
                         PAD_token)

\* C8's case: two index sequences of different length padded, PAD itself an
\* element of the longer one
C8_Witness ==
    /\ pad_call = "zeroPadding"
    /\ Len(pad_args) = 2
    /\ Len(pad_args[1]) = 3
    /\ Len(pad_args[2]) = 1
    /\ pad_args[1][2] = PAD_token
    /\ Len(pad_ret) = 3

\* C9: for a non-empty list of token sequences outputVar returns a mask of the
\* padded index matrix's shape that is 1 exactly where the matrix is not PAD.
C9_MaskIffNotPad ==
    pad_call = "outputVar" =>
        /\ (/\ pad_args # <<>>
            /\ \A j \in DOMAIN pad_args : \A i \in DOMAIN pad_args[j] :
                    pad_args[j][i] \in DOMAIN voc.word2index)
                => pad_exc = "None"
        /\ pad_exc = "None" =>
            /\ pad_args # <<>>
            /\ Len(pad_ret.mask) = Len(pad_ret.padVar)
            /\ \A i \in DOMAIN pad_ret.padVar :
                /\ Len(pad_ret.mask[i]) = Len(pad_ret.padVar[i])
                /\ \A j \in DOMAIN pad_ret.padVar[i] :
                     /\ pad_ret.mask[i][j] \in {0, 1}
                     /\ pad_ret.mask[i][j] = 1 <=> pad_ret.padVar[i][j] # PAD_token

\* C9's case: outputVar returned for two token sequences of different length,
\* so that the mask holds ones and zeros
C9_Witness ==
    /\ pad_call = "outputVar"
    /\ pad_exc = "None"
    /\ Len(pad_args) = 2
    /\ Len(pad_args[1]) = 0
    /\ Len(pad_args[2]) = 3
    /\ pad_ret.mask[1] = <<1, 1>>
    /\ pad_ret.mask[4] = <<0, 1>>

\* ---------------------------------------------- claims on the batch iterator

\* ceil(n / b)
Period(n, b) == (n + b - 1) \div b

\* C10: without shuffling, for n >= 1 pairs, the generator yields at every
\* poll; the k-th batch is the slice at cursor ((k-1) mod ceil(n/b)) * b, of
\* batch_size pairs or of the pairs left, so that the batch sizes and the
\* batches repeat with period ceil(n/b) (2,2,1,2,2,1,... for n = 5, b = 2);
\* and the source list stays as it was given.
C10_CycleWithoutShuffle ==
    (~shuffle /\ it_pc # "idle" /\ Len(source_data) >= 1) =>
        LET n == Len(source_data)
            b == batch_size
            p == Period(n, b)
        IN /\ it_pc \in {"created", "yielded"}
           /\ it_pc = "yielded" => Len(yields) >= 1
           /\ source_data = Dataset(n)
           /\ \A k \in DOMAIN yields :
                LET start == ((k - 1) % p) * b
                    slice == Slice(source_data, start, start + b)
                IN /\ yields[k].cur_idx = start
                   /\ yields[k].true_batch_size = (IF start + b <= n THEN b ELSE n - start)
                   /\ yields[k].true_batch_size >= 1
                   /\ Len(yields[k].batch_dialogs) = yields[k].true_batch_size
                   /\ Range(yields[k].batch_tensors.id_batch)
                        = {slice[i][3] : i \in DOMAIN slice}
                   /\ Range(yields[k].batch_dialogs)
                        = {slice[i][1] : i \in DOMAIN slice}
                   /\ k + p <= Len(yields) => yields[k + p] = yields[k]
           /\ (n = 5 /\ b = 2) =>
                [k \in DOMAIN yields |-> yields[k].true_batch_size]
                    = [k \in DOMAIN yields |-> IF k % 3 = 0 THEN 1 ELSE 2]

\* C10's case: five pairs in batches of two, polled through two passes and into
\* the third, the second batch's pairs reordered by the sort
C10_Witness ==
    /\ ~shuffle
    /\ Len(source_data) = 5
    /\ batch_size = 2
    /\ Len(yields) = 7
    /\ yields[6].true_batch_size = 1
    /\ yields[1].batch_tensors.id_batch = <<2, 1>>

\* the ids of a list of pairs
Ids(pair_list) == {pair_list[i][3] : i \in DOMAIN pair_list}

\* the ids of the k-th batch yielded
BatchIds(k) == Range(yields[k].batch_tensors.id_batch)

\* the yield that began the pass of the k-th yield: the last one, up to k, cut
\* at cursor 0
PassStart(k) ==
    CHOOSE s \in 1..k :
        /\ yields[s].cur_idx = 0
        /\ \A j \in (s + 1)..k : yields[j].cur_idx # 0

\* the k-th yield ended its pass: the next one was cut at cursor 0 again
PassEndedAt(k) == k + 1 \in DOMAIN yields /\ yields[k + 1].cur_idx = 0

\* C13: for n >= 1 pairs and batch_size b >= 1, with shuffling on or off, the
\* generator never raises; every batch has at least one and at most b pairs;
\* the batches of one pass (from a yield at cursor 0 up to the next one) are
\* cut at cursors 0, b, 2b, ..., are pairwise disjoint and, once the pass has
\* ended, hold every pair of the dataset exactly once; the batches of the pass
\* under way are the slices of the list as it is now; and the list changes only
\* at a step that sets the cursor to 0, only with shuffling on, and only in
\* its order.
C13_PassCoversDataset ==
    /\ [](( it_pc # "idle" /\ Len(source_data) >= 1) =>
            LET n == Len(source_data)
                b == batch_size
            IN /\ it_pc \in {"created", "yielded"}
               /\ Ids(source_data) = Ids(Dataset(n))
               /\ yields # <<>> => yields[1].cur_idx = 0
               /\ \A k \in DOMAIN yields :
                    LET s == PassStart(k)
                    IN /\ yields[k].true_batch_size >= 1
                       /\ yields[k].true_batch_size <= b
                       /\ Len(yields[k].batch_tensors.id_batch) = yields[k].true_batch_size
                       /\ Cardinality(BatchIds(k)) = yields[k].true_batch_size
                       /\ yields[k].cur_idx = (k - s) * b
                       /\ yields[k].cur_idx < n
                       /\ \A j \in s..(k - 1) : BatchIds(j) \cap BatchIds(k) = {}
                       /\ PassEndedAt(k) =>
                            /\ UNION {BatchIds(j) : j \in s..k} = Ids(source_data)
                            /\ SumOver([j \in 1..k |-> yields[j].true_batch_size], s, k) = n
                       /\ s = PassStart(Len(yields)) =>
                            BatchIds(k) = Ids(Slice(source_data, yields[k].cur_idx,
                                                    yields[k].cur_idx + b)))
    /\ [][source_data' # source_data =>
                /\ shuffle
                /\ cur_idx' = 0
                /\ it_pc = "created" \/ cur_idx + batch_size >= Len(source_data)
                /\ source_data' \in Shuffles(source_data)]_vars

\* C13's case: three pairs shuffled, batches of two, a pass of two batches ended
\* by a reset that reshuffled the list, so that the third batch is not the first
C13_Witness ==
    /\ shuffle
    /\ Len(source_data) = 3
    /\ batch_size = 2
    /\ Len(yields) = 3
    /\ yields[3].cur_idx = 0
    /\ BatchIds(1) # BatchIds(3)
    /\ BatchIds(1) \cup BatchIds(2) = {1, 2, 3}
    /\ source_data # Dataset(3)

\* ------------------------------------------------- claims on the token lookup

\* the lookup of the pairs ran with the vocabulary loadPairs was called with
LookedUpUnmodified ==
    /\ pad_call = "indexesFromSentence"
    /\ pad_args.voc = pairs_voc

\* C11: "UNK" is a key of word2index in every vocabulary reachable from
\* Voc(name) by addWord, addSentence and trim; while the vocabulary is the one
\* loadPairs ran with, every token of every context utterance and every reply
\* of the pairs is a key of word2index (a word of the vocabulary or "UNK"), and
\* indexesFromSentence, called on all of them with that vocabulary, raises
\* nothing and returns an index for every token and EOS_token behind them.
C11_LookupSucceeds ==
    /\ "UNK" \in DOMAIN voc.word2index
    /\ (pairs_pc = "done" /\ voc = pairs_voc) =>
            \A k \in DOMAIN pairs :
                \A u \in DOMAIN (pairs[k][1] \o <<pairs[k][2]>>) :
                    LET sentence == (pairs[k][1] \o <<pairs[k][2]>>)[u]
                    IN /\ Range(sentence) \subseteq DOMAIN voc.word2index
                       /\ indexesFromSentence(voc, sentence).exc = "None"
    /\ LookedUpUnmodified =>
            /\ pad_exc = "None"
            /\ Len(pad_ret) = Len(pad_args.l)
            /\ \A j \in DOMAIN pad_ret :
                    /\ Len(pad_ret[j]) = Len(pad_args.l[j]) + 1
                    /\ pad_ret[j][Len(pad_ret[j])] = EOS_token

\* C11's case: a vocabulary with words of its own, trimmed before loadPairs,
\* pairs that hold a word of the vocabulary and "UNK" for tokens that are none,
\* and the lookup of all of them done with that vocabulary
C11_Witness ==
    /\ LookedUpUnmodified
    /\ pairs_voc.trimmed
    /\ pairs_voc.num_words > 4
    /\ Len(pairs) >= 2
    /\ \E j \in DOMAIN pad_args.l :
            /\ "UNK" \in Range(pad_args.l[j])
            /\ Range(pad_args.l[j]) \ {"UNK"} # {}
    /\ pad_exc = "None"

\* -------------------------------------------------- claims on FightingWords

FwQueries == {"get_top_k_ngrams", "get_ngrams_past_threshold", "get_zscore"}

\* one of the selectors is true of no utterance of the corpus
ZeroUtterances(c) ==
    \/ \A i \in DOMAIN c : ~class1_selector(c[i])
    \/ \A i \in DOMAIN c : ~class2_selector(c[i])

\* C12: get_top_k_ngrams, get_ngrams_past_threshold and get_zscore raise
\* ValueError whenever no fit has completed without raising before the call;
\* a fit on a corpus where a selector is true of no utterance raises ValueError
\* and leaves the comparator as it was, unfitted if it was unfitted.
C12_UnfittedRaises ==
    /\ [][(fw_op'.op \in FwQueries /\ fw_calls' # fw_calls /\ ~fw_fitted)
                => fw_op'.exc = "ValueError"]_vars
    /\ [][(fw_op'.op = "fit" /\ fw_calls' # fw_calls /\ ZeroUtterances(fw_corpus))
                => /\ fw_op'.exc = "ValueError"
                   /\ ngram_zscores' = ngram_zscores
                   /\ count_matrix' = count_matrix
                   /\ fw_fitted' = fw_fitted]_vars
    /\ [](~fw_fitted => ngram_zscores = None)

\* C12's case: a fit on a corpus with utterances for class 1 and none for
\* class 2 has raised, and a query made after it has raised as well
C12_Witness ==
    /\ fw_failed
    /\ ~fw_fitted
    /\ fw_op.op \in FwQueries
    /\ fw_op.exc = "ValueError"
    /\ fw_corpus # <<>>
    /\ \A i \in DOMAIN fw_corpus : class1_selector(fw_corpus[i]) /\ ~class2_selector(fw_corpus[i])

\* ------------------------------------------------------------ specifications

\* a vocabulary and its callers
VocInit == VocStart /\ FlatIdle /\ PairsIdle /\ PadIdle /\ IterIdle /\ FwIdle

SpecVoc == VocInit /\ [][VocNext]_vars

\* one call of dialogBatch2UtteranceBatch on a batch its caller built
FlatInit == VocStart /\ FlatStart /\ PairsIdle /\ PadIdle /\ IterIdle /\ FwIdle

SpecFlatten == FlatInit /\ [][FlatNext]_vars

\* one call of loadPairs on a corpus, with one of the vocabularies
PairsInit ==
    /\ voc \in PairVocs
    /\ lastOp = [op |-> "Voc", arg |-> "corpus"]
    /\ exc = "None"
    /\ added = {}
    /\ ntrims = 0
    /\ ncalls = 0
    /\ FlatIdle
    /\ PairsStart
    /\ PadIdle /\ IterIdle /\ FwIdle

PairsNext ==
    \/ NewConversation
    \/ \E text \in Texts : NewComment(text)
    \/ LoadPairs

SpecPairs == PairsInit /\ [][PairsNext]_vars

\* one call of zeroPadding, inputVar or outputVar
PadInit ==
    /\ voc = PadVoc
    /\ lastOp = [op |-> "Voc", arg |-> "corpus"]
    /\ exc = "None"
    /\ added = {}
    /\ ntrims = 0
    /\ ncalls = 0
    /\ FlatIdle
    /\ PairsIdle
    /\ PadStart
    /\ IterIdle
    /\ FwIdle

PadNext ==
    \/ \E l \in IndexLists : ZeroPadding(l)
    \/ \E l \in TokenLists : InputVar(l)
    \/ \E l \in TokenLists : OutputVar(l)

SpecPad == PadInit /\ [][PadNext]_vars

\* one generator of batchIterator, without shuffling, polled again and again
IterInit ==
    /\ voc = PadVoc
    /\ lastOp = [op |-> "Voc", arg |-> "corpus"]
    /\ exc = "None"
    /\ added = {}
    /\ ntrims = 0
    /\ ncalls = 0
    /\ FlatIdle
    /\ PairsIdle
    /\ PadIdle
    /\ source_data \in {Dataset(n) : n \in 0..MaxPairs}
    /\ batch_size \in 1..MaxBatchSize
    /\ shuffle = FALSE
    /\ cur_idx = 0
    /\ it_pc = "created"
    /\ it_exc = "None"
    /\ yields = <<>>
    /\ FwIdle

IterNext ==
    \/ StartIterator
    \/ ResumeIterator

SpecIter == IterInit /\ [][IterNext]_vars

\* a corpus, then a vocabulary built and trimmed by its callers, loadPairs
\* called at any point of that and the lookup of its pairs at any later point:
\* the corpus is there before the first call on the vocabulary, and the run
\* ends with the lookup
LookupInit == VocStart /\ FlatIdle /\ PairsStart /\ PadStart /\ IterIdle /\ FwIdle

CorpusConversation == ncalls = 0 /\ NewConversation

CorpusComment(text) == ncalls = 0 /\ NewComment(text)

VocAddWord(word) == pad_call = "none" /\ AddWord(word)

VocAddSentence(sentence) == pad_call = "none" /\ AddSentence(sentence)

VocTrim(min_count) == pad_call = "none" /\ Trim(min_count)

LookupNext ==
    \/ CorpusConversation
    \/ \E text \in LookupTexts : CorpusComment(text)
    \/ \E word \in LookupWords : VocAddWord(word)
    \/ \E sentence \in LookupSentences : VocAddSentence(sentence)
    \/ \E min_count \in LookupMinCounts : VocTrim(min_count)
    \/ LoadPairs
    \/ IndexPairs

SpecLookup == LookupInit /\ [][LookupNext]_vars

\* one generator of batchIterator, with shuffling or without, polled a few
\* times: every shuffle may leave the list in any order
ShuffleInit ==
    /\ voc = PadVoc
    /\ lastOp = [op |-> "Voc", arg |-> "corpus"]
    /\ exc = "None"
    /\ added = {}
    /\ ntrims = 0
    /\ ncalls = 0
    /\ FlatIdle
    /\ PairsIdle
    /\ PadIdle
    /\ source_data \in {Dataset(n) : n \in 0..MaxShufflePairs}
    /\ batch_size \in 1..MaxBatchSize
    /\ shuffle \in BOOLEAN
    /\ cur_idx = 0
    /\ it_pc = "created"
    /\ it_exc = "None"
    /\ yields = <<>>
    /\ FwIdle

PollIterator == Len(yields) < MaxShufflePolls /\ ResumeIterator

ShuffleNext ==
    \/ StartIterator
    \/ PollIterator

SpecShuffle == ShuffleInit /\ [][ShuffleNext]_vars

\* one comparator, the corpus of its callers and their calls in any order
FwInit == VocStart /\ FlatIdle /\ PairsIdle /\ PadIdle /\ IterIdle /\ FwStart

FwNext ==
    \/ \E text \in FwTexts, c1 \in BOOLEAN, c2 \in BOOLEAN : FwNewUtterance(text, c1, c2)
    \/ Fit
    \/ Summarize
    \/ \E top_k \in FwTopKs : GetTopKNgrams(top_k)
    \/ \E threshold \in FwThresholds : GetNgramsPastThreshold(threshold)
    \/ \E ngram \in FwNgrams : GetZscore(ngram)

SpecFw == FwInit /\ [][FwNext]_vars

=============================================================================
